---- MODULE Spec2Model ----
(***************************************************************************)
(* Model of nixio/cmd/upgrade.py: the in-place upgrade of NIX files.       *)
(* The state is the on-disk content of each file named on the command      *)
(* line (root attributes "version" and "id", the tree under /metadata)     *)
(* together with the position of main() in the run.                        *)
(***************************************************************************)
EXTENDS Integers, Sequences, FiniteSets, TLC

\* ------------------------------------------------------------------ bounds
MaxRows == 2
MaxRuns == 2

\* ------------------------------------------------------- program constants
\* nix.file.HDF_FF_VERSION, the format version of the library.  upgrade.py
\* only reads it (lines 117, 118, 126, 127); the versions of the initial
\* states lie on both sides of it.
HDF_FF_VERSION == <<1, 2, 1>>

Files == {"f1", "f2"}

\* the extra columns of a legacy compound Property, in the order read
StrCols == <<"reference", "filename", "encoder", "checksum">>
AllCols == {"value", "uncertainty", "reference", "filename", "encoder", "checksum"}

\* ------------------------------------------------------------ small helpers
Range(s) == {s[k] : k \in 1..Len(s)}
Last(s) == s[Len(s)]
Front(s) == SubSeq(s, 1, Len(s) - 1)
Column(rows, c) == [k \in 1..Len(rows) |-> rows[k][c]]

\* Attribute values of the file header: a missing attribute (None), an empty
\* string, some other text, or a UUID string (numbered).
NoneVal == [k |-> "none", n |-> 0]
EmptyStr == [k |-> "empty", n |-> 0]
JunkStr == [k |-> "text", n |-> 0]
Uuid(n) == [k |-> "uuid", n |-> n]

\* nix.util.is_uuid: the string is a syntactically valid UUID
is_uuid(x) == x.k = "uuid"

\* nix.util.create_id: a fresh UUID string; nid is the number of ids made so far
create_id(nid) == Uuid(nid + 1)

\* Python truthiness of an attribute value / of an array element
Truthy(x) == x.k \notin {"none", "empty"}
TruthyNum(x) == x # "0"
TruthyStr(x) == x # ""
any_num(col) == \E k \in 1..Len(col) : TruthyNum(col[k])
any_str(col) == \E k \in 1..Len(col) : TruthyStr(col[k])

\* Python's comparison of two tuples of integers
RECURSIVE TupleLess(_, _)
TupleLess(a, b) ==
    IF a = <<>> THEN b # <<>>
    ELSE IF b = <<>> THEN FALSE
    ELSE IF Head(a) # Head(b) THEN Head(a) < Head(b)
    ELSE TupleLess(Tail(a), Tail(b))

\* a comparison element by element in place of the lexicographic one
TupleGE_elementwise(a, b) == \A k \in 1..Len(b) : k <= Len(a) /\ a[k] >= b[k]

TupleGE(a, b) == ~TupleLess(a, b)

\* ------------------------------------------------------------------- paths
\* A path under /metadata is a sequence of link names; a link name is the
\* sequence of its dot-separated parts ("p.reference" is <<"p","reference">>).
AtomRank(a) ==
    CASE a = "checksum" -> 1 [] a = "encoder" -> 2 [] a = "filename" -> 3
      [] a = "p" -> 4 [] a = "q" -> 5 [] a = "reference" -> 6
      [] a = "s" -> 7 [] a = "t" -> 8 [] a = "uncertainty" -> 9

RECURSIVE NameLess(_, _)
NameLess(a, b) ==
    IF a = <<>> THEN b # <<>>
    ELSE IF b = <<>> THEN FALSE
    ELSE IF Head(a) # Head(b) THEN AtomRank(Head(a)) < AtomRank(Head(b))
    ELSE NameLess(Tail(a), Tail(b))

\* order in which visititems meets two objects: by link name, depth first
RECURSIVE PathLess(_, _)
PathLess(p, q) ==
    IF p = <<>> THEN q # <<>>
    ELSE IF q = <<>> THEN FALSE
    ELSE IF Head(p) # Head(q) THEN NameLess(Head(p), Head(q))
    ELSE PathLess(Tail(p), Tail(q))

RECURSIVE SortPaths(_)
SortPaths(S) ==
    IF S = {} THEN <<>>
    ELSE LET m == CHOOSE x \in S : \A y \in S \ {x} : PathLess(x, y)
         IN <<m>> \o SortPaths(S \ {m})

\* the kind alone as the name of the new dataset, without propname + "."
Sibling_bare(p, kind) == Append(Front(p), <<kind>>)

\* propname + ".<kind>"
Sibling(p, kind) == Append(Front(p), Append(Last(p), kind))

\* ------------------------------------------------------------------- nodes
NoAttrs == [name |-> <<>>, entity_id |-> NoneVal, created_at |-> 0,
            updated_at |-> 0, has_unc |-> FALSE, uncertainty |-> "0"]

Group == [kind |-> "group", compound |-> FALSE, dtype |-> "", fields |-> {},
          rows |-> <<>>, data |-> <<>>, attrs |-> NoAttrs]

\* a legacy Property: one dataset of compound dtype; dtype is that of "value"
Legacy(fields, rows) ==
    [kind |-> "dataset", compound |-> TRUE, dtype |-> "int64", fields |-> fields,
     rows |-> rows, data |-> <<>>, attrs |-> NoAttrs]

Row(v, u, r, f, e, c) ==
    [value |-> v, uncertainty |-> u, reference |-> r, filename |-> f,
     encoder |-> e, checksum |-> c]

\* a canonical Property as written by the current library
Simple(name, data) ==
    [kind |-> "dataset", compound |-> FALSE, dtype |-> "int64", fields |-> {},
     rows |-> <<>>, data |-> data,
     attrs |-> [name |-> name, entity_id |-> Uuid(0), created_at |-> 0,
                updated_at |-> 0, has_unc |-> FALSE, uncertainty |-> "0"]]

Remove(t, p) == [q \in DOMAIN t \ {p} |-> t[q]]

Compounds(t) == {p \in DOMAIN t : t[p].kind = "dataset" /\ t[p].compound}

\* ------------------------------------------------------------------- state
VARIABLES
    version,    \* file -> root attribute "version"
    fileid,     \* file -> root attribute "id"
    tree,       \* file -> (path under /metadata -> node)
    nid,        \* number of UUIDs generated so far
    args,       \* the file names on the command line
    force,      \* --force
    pc,         \* position of main: collect, prompt, exec, done, failed, killed
    i,          \* index of the file being planned
    tasks,      \* main's dict: file -> list of tasks (<<>>: no entry)
    order,      \* insertion order of the keys of tasks
    conf,       \* the operator's answer
    fi, ti, pi, \* executor position: file, task, property
    run,        \* number of the current invocation of the tool
    out,        \* lines printed by the current invocation
    opens,      \* file -> number of times it was opened for writing in this run
    log,        \* file -> tasks that returned in this run
    start,      \* the files as they were when this run started
    hist        \* how the earlier runs ended

disk == <<version, fileid, tree>>
ctl == <<pc, i, tasks, order, conf, fi, ti, pi>>
vars == <<version, fileid, tree, nid, args, force, pc, i, tasks, order, conf,
          fi, ti, pi, run, out, opens, log, start, hist>>

Snapshot == [f \in Files |-> [version |-> version[f], fileid |-> fileid[f], tree |-> tree[f]]]

\* ----------------------------------------------------- the upgrade functions
\* get_file_version: KeyError when the attribute is missing
get_file_version(f) ==
    IF version[f].k = "missing" THEN [raised |-> TRUE, v |-> <<>>]
    ELSE [raised |-> FALSE, v |-> version[f].v]

\* lines 14-16 with the return of line 15 lost
has_valid_file_id_never(f) == FALSE

has_valid_file_id(f) == Truthy(fileid[f]) /\ is_uuid(fileid[f])

\* find_props over sections.visititems: the compound datasets, in visit order
find_props(t) == SortPaths(Compounds(t))

\* create_dataset fails when the name is taken; st is [ok, tree, nid]
create_property(st, name, dtype, data, now) ==
    IF name \in DOMAIN st.tree THEN [st EXCEPT !.ok = FALSE]
    ELSE [ok |-> TRUE,
          tree |-> (name :> [kind |-> "dataset", compound |-> FALSE, dtype |-> dtype,
                             fields |-> {}, rows |-> <<>>, data |-> data,
                             attrs |-> [name |-> Last(name),
                                        entity_id |-> create_id(st.nid),
                                        created_at |-> now, updated_at |-> now,
                                        has_unc |-> FALSE, uncertainty |-> "0"]])
                   @@ st.tree,
          nid |-> st.nid + 1]

\* lines 68-75 with ">= 1" in place of "> 1"
split_uncertainty_ge(st, propname, uncertainty, now) ==
    IF Cardinality(Range(uncertainty)) >= 1
    THEN create_property(st, Sibling(propname, "uncertainty"), "float", uncertainty, now)
    ELSE IF any_num(uncertainty)
    THEN [st EXCEPT !.tree[propname].attrs.has_unc = TRUE,
                    !.tree[propname].attrs.uncertainty = uncertainty[1]]
    ELSE st

\* lines 68-75: the uncertainty column
split_uncertainty(st, propname, uncertainty, now) ==
    IF Cardinality(Range(uncertainty)) > 1
    THEN create_property(st, Sibling(propname, "uncertainty"), "float", uncertainty, now)
    ELSE IF any_num(uncertainty)
    THEN [st EXCEPT !.tree[propname].attrs.has_unc = TRUE,
                    !.tree[propname].attrs.uncertainty = uncertainty[1]]
    ELSE st

\* lines 77-95 keeping only the non-empty rows of a column
NonEmpty(col) == SelectSeq(col, TruthyStr)
RECURSIVE split_strings_sparse(_, _, _, _, _)
split_strings_sparse(st, propname, rows, k, now) ==
    IF k > Len(StrCols) \/ ~st.ok THEN st
    ELSE IF any_str(Column(rows, StrCols[k]))
    THEN split_strings_sparse(create_property(st, Sibling(propname, StrCols[k]), "vlen_str",
                                              NonEmpty(Column(rows, StrCols[k])), now),
                              propname, rows, k + 1, now)
    ELSE split_strings_sparse(st, propname, rows, k + 1, now)

\* lines 77-95: reference, filename, encoder, checksum, in that order
RECURSIVE split_strings(_, _, _, _, _)
split_strings(st, propname, rows, k, now) ==
    IF k > Len(StrCols) \/ ~st.ok THEN st
    ELSE IF any_str(Column(rows, StrCols[k]))
    THEN split_strings(create_property(st, Sibling(propname, StrCols[k]), "vlen_str",
                                       Column(rows, StrCols[k]), now),
                       propname, rows, k + 1, now)
    ELSE split_strings(st, propname, rows, k + 1, now)

\* lines 51-95 with the delete of line 64 ahead of the reads of lines 55-62
update_prop_delete_first(t, n, propname, now) ==
    LET prop == t[propname]
    IN  IF ~(AllCols \subseteq prop.fields)
        THEN [ok |-> FALSE, tree |-> Remove(t, propname), nid |-> n]
        ELSE LET base == create_property([ok |-> TRUE, tree |-> Remove(t, propname), nid |-> n],
                                         propname, prop.dtype, Column(prop.rows, "value"), now)
                 unc == split_uncertainty(base, propname, Column(prop.rows, "uncertainty"), now)
             IN  split_strings(unc, propname, prop.rows, 1, now)

\* lines 51-95 with dtype=float on line 66, as on line 72
update_prop_float(t, n, propname, now) ==
    LET prop == t[propname]
    IN  IF ~(AllCols \subseteq prop.fields)
        THEN [ok |-> FALSE, tree |-> t, nid |-> n]
        ELSE LET base == create_property([ok |-> TRUE, tree |-> Remove(t, propname), nid |-> n],
                                         propname, "float", Column(prop.rows, "value"), now)
                 unc == split_uncertainty(base, propname, Column(prop.rows, "uncertainty"), now)
             IN  split_strings(unc, propname, prop.rows, 1, now)

\* one iteration of the loop of update_props (lines 51-95)
update_prop(t, n, propname, now) ==
    LET prop == t[propname]
    IN  IF ~(AllCols \subseteq prop.fields)
        THEN [ok |-> FALSE, tree |-> t, nid |-> n]
        ELSE LET base == create_property([ok |-> TRUE, tree |-> Remove(t, propname), nid |-> n],
                                         propname, prop.dtype, Column(prop.rows, "value"), now)
                 unc == split_uncertainty(base, propname, Column(prop.rows, "uncertainty"), now)
             IN  split_strings(unc, propname, prop.rows, 1, now)

AddId == [op |-> "add_id", props |-> <<>>]
UpdateProps(props) == [op |-> "update_props", props |-> props]
UpdateVer == [op |-> "update_ver", props |-> <<>>]

\* line 127 with ">" in place of ">="
up_to_date_strict(file_ver) == TupleLess(HDF_FF_VERSION, file_ver)

\* line 127: file_ver >= nix.file.HDF_FF_VERSION
up_to_date(file_ver) == TupleGE(file_ver, HDF_FF_VERSION)

\* lines 133-139 with the version update scheduled first
schedule_ver_first(f) ==
    <<UpdateVer>> \o (IF ~has_valid_file_id(f)
                      THEN <<AddId, UpdateProps(find_props(tree[f]))>>
                      ELSE <<>>)

\* lines 133-139 with line 136 outside the if
schedule_props_always(f) ==
    (IF ~has_valid_file_id(f) THEN <<AddId>> ELSE <<>>)
        \o <<UpdateProps(find_props(tree[f])), UpdateVer>>

\* lines 133-139: the tasks of a file that is not up to date
schedule(f) ==
    (IF ~has_valid_file_id(f)
     THEN <<AddId, UpdateProps(find_props(tree[f]))>>
     ELSE <<>>) \o <<UpdateVer>>

\* collect_tasks: the comparison raises TypeError when the attribute is text
collect_tasks(f) ==
    LET fv == get_file_version(f)
    IN  IF fv.raised \/ version[f].k = "text"
        THEN [raised |-> TRUE, tasks |-> <<>>, printed |-> <<>>]
        ELSE IF up_to_date(fv.v)
        THEN [raised |-> FALSE, tasks |-> <<>>,
              printed |-> <<[f |-> f, what |-> "uptodate", ops |-> <<>>]>>]
        ELSE LET tl == schedule(f)
             IN  [raised |-> FALSE, tasks |-> tl,
                  printed |-> <<[f |-> f, what |-> "plan", ops |-> [k \in 1..Len(tl) |-> tl[k].op]]>>]

\* ---------------------------------------------------------- initial states
Ver(v) == [k |-> "tuple", v |-> v]
NoVersion == [k |-> "missing", v |-> <<>>]
TextVersion == [k |-> "text", v |-> <<>>]

S == <<"s">>
T == <<"t">>
P == <<"p">>
Q == <<"q">>

RowsA == <<Row("x", "1", "", "", "", ""), Row("y", "2", "a", "", "", ""),
           Row("z", "2", "", "", "", "")>>
RowsB == <<Row("x", "1", "", "", "", "c"), Row("y", "1", "", "", "", "c")>>
RowsZ == <<Row("x", "0", "", "", "", "")>>

OnlySection == (<<S>> :> Group)
OneLegacy == (<<S>> :> Group) @@ (<<S, P>> :> Legacy(AllCols, RowsA))
Nested == (<<S>> :> Group) @@ (<<S, P>> :> Legacy(AllCols, RowsB))
              @@ (<<S, Q>> :> Simple(Q, <<"x">>)) @@ (<<S, T>> :> Group)
              @@ (<<S, T, P>> :> Legacy(AllCols, RowsZ))
Clash == (<<S>> :> Group) @@ (<<S, P>> :> Legacy(AllCols, RowsA))
             @@ (<<S, <<"p", "reference">>>> :> Legacy(AllCols, RowsZ))
Corrupt == (<<S>> :> Group) @@ (<<S, P>> :> Legacy(AllCols, RowsB))
               @@ (<<S, Q>> :> Legacy(AllCols \ {"encoder"}, RowsZ))
               @@ (<<S, T>> :> Group) @@ (<<S, T, P>> :> Legacy(AllCols, RowsZ))
Current == (<<S>> :> Group) @@ (<<S, P>> :> Simple(P, <<"x", "y">>))
               @@ (<<S, <<"p", "reference">>>> :> Simple(<<"p", "reference">>, <<"", "a">>))

Versions == {NoVersion, TextVersion, Ver(<<1, 1, 0>>), Ver(<<1, 2>>), Ver(<<0, 9, 9>>),
             Ver(<<1, 2, 1>>), Ver(<<2, 0, 0>>), Ver(<<1, 2, 1, 0>>)}
Ids == {NoneVal, EmptyStr, JunkStr, Uuid(0)}
Trees == {OnlySection, OneLegacy, Nested, Clash, Corrupt, Current}

\* the second file varies less
Versions2 == {NoVersion, Ver(<<1, 1, 0>>), Ver(<<1, 2, 1>>)}
Ids2 == {NoneVal, Uuid(0)}
Trees2 == {OnlySection, OneLegacy}

NoTasks == [f \in Files |-> <<>>]
NoLog == [f \in Files |-> <<>>]
NoOpens == [f \in Files |-> 0]

InitRun ==
    /\ nid = 0
    /\ pc = "collect"
    /\ i = 1
    /\ tasks = NoTasks
    /\ order = <<>>
    /\ conf = "None"
    /\ fi = 1 /\ ti = 1 /\ pi = 1
    /\ run = 1
    /\ out = <<>>
    /\ opens = NoOpens
    /\ log = NoLog
    /\ start = Snapshot
    /\ hist = <<>>

Init ==
    /\ args \in {<<"f1", "f2">>, <<"f2", "f1">>}
    /\ force \in BOOLEAN
    /\ \E v1 \in Versions, v2 \in Versions2 : version = ("f1" :> v1) @@ ("f2" :> v2)
    /\ \E d1 \in Ids, d2 \in Ids2 : fileid = ("f1" :> d1) @@ ("f2" :> d2)
    /\ \E t1 \in Trees, t2 \in Trees2 : tree = ("f1" :> t1) @@ ("f2" :> t2)
    /\ InitRun

\* ----------------------------------------------------------------- actions
\* lines 158-163 with line 135 calling the closure it should append
Collect_eager ==
    /\ pc = "collect"
    /\ i <= Len(args)
    /\ LET f == args[i]
           r == collect_tasks(f)
       IN  IF r.raised
           THEN /\ pc' = "failed"
                /\ UNCHANGED <<i, tasks, order, out, fileid, nid>>
           ELSE /\ pc' = pc
                /\ i' = i + 1
                /\ out' = out \o r.printed
                /\ tasks' = [tasks EXCEPT ![f] = IF r.tasks # <<>> THEN r.tasks ELSE @]
                /\ order' = IF r.tasks # <<>> /\ f \notin Range(order)
                            THEN Append(order, f) ELSE order
                /\ IF r.tasks # <<>> /\ r.tasks[1].op = "add_id"
                   THEN fileid' = [fileid EXCEPT ![f] = create_id(nid)] /\ nid' = nid + 1
                   ELSE UNCHANGED <<fileid, nid>>
    /\ UNCHANGED <<version, tree, args, force, conf, fi, ti, pi, run, opens, log, start, hist>>

\* main, lines 158-163: one iteration of the planning loop
Collect ==
    /\ pc = "collect"
    /\ i <= Len(args)
    /\ LET f == args[i]
           r == collect_tasks(f)
       IN  IF r.raised
           THEN /\ pc' = "failed"
                /\ UNCHANGED <<i, tasks, order, out>>
           ELSE /\ pc' = pc
                /\ i' = i + 1
                /\ out' = out \o r.printed
                /\ tasks' = [tasks EXCEPT ![f] = IF r.tasks # <<>> THEN r.tasks ELSE @]
                /\ order' = IF r.tasks # <<>> /\ f \notin Range(order)
                            THEN Append(order, f) ELSE order
    /\ UNCHANGED <<disk, nid, args, force, conf, fi, ti, pi, run, opens, log, start, hist>>

\* main, lines 165-186: nothing to do, or --force, or the warning and the prompt
AfterCollect ==
    /\ pc = "collect"
    /\ i > Len(args)
    /\ IF order = <<>>
       THEN pc' = "done" /\ UNCHANGED <<conf, out>>
       ELSE IF force
       THEN pc' = "exec" /\ conf' = "yes" /\ UNCHANGED out
       ELSE pc' = "prompt" /\ conf' = "None"
            /\ out' = Append(out, [f |-> "", what |-> "warning", ops |-> <<>>])
    /\ UNCHANGED <<disk, nid, args, force, i, tasks, order, fi, ti, pi, run, opens, log, start, hist>>

Answers == {"y", "yes", "n", "no", "YES", "N", "maybe", ""}
lower(a) == CASE a = "YES" -> "yes" [] a = "N" -> "n" [] OTHER -> a

\* lines 182-188 with every answer other than n/no taken as consent
Input_lenient ==
    /\ pc = "prompt"
    /\ \E a \in Answers :
          /\ conf' = lower(a)
          /\ pc' = IF conf' \in {"n", "no"} THEN "done" ELSE "exec"
    /\ UNCHANGED <<disk, nid, args, force, i, tasks, order, fi, ti, pi, run, out, opens, log, start, hist>>

\* main, lines 182-188: one answer at the prompt
Input ==
    /\ pc = "prompt"
    /\ \E a \in Answers :
          /\ conf' = lower(a)
          /\ pc' = IF conf' \in {"y", "yes"} THEN "exec"
                   ELSE IF conf' \in {"n", "no"} THEN "done"
                   ELSE "prompt"
    /\ UNCHANGED <<disk, nid, args, force, i, tasks, order, fi, ti, pi, run, out, opens, log, start, hist>>

CurFile == order[fi]
CurTask == tasks[CurFile][ti]

\* lines 189-193: what the loops do when the current task has returned
Advance ==
    /\ log' = [log EXCEPT ![CurFile] = Append(@, CurTask.op)]
    /\ IF ti < Len(tasks[CurFile])
       THEN /\ ti' = ti + 1 /\ pi' = 1 /\ fi' = fi /\ pc' = pc
            /\ out' = out \o (IF ti = 1 THEN <<[f |-> CurFile, what |-> "processing", ops |-> <<>>]>> ELSE <<>>)
       ELSE /\ out' = out \o (IF ti = 1 THEN <<[f |-> CurFile, what |-> "processing", ops |-> <<>>]>> ELSE <<>>)
                          \o <<[f |-> CurFile, what |-> "done", ops |-> <<>>]>>
            /\ IF fi < Len(order)
               THEN fi' = fi + 1 /\ ti' = 1 /\ pi' = 1 /\ pc' = pc
               ELSE pc' = "done" /\ UNCHANGED <<fi, ti, pi>>

\* add_id, lines 24-27
add_id ==
    /\ pc = "exec"
    /\ CurTask.op = "add_id"
    /\ fileid' = [fileid EXCEPT ![CurFile] = create_id(nid)]
    /\ nid' = nid + 1
    /\ opens' = [opens EXCEPT ![CurFile] = @ + 1]
    /\ Advance
    /\ UNCHANGED <<version, tree, args, force, i, tasks, order, conf, run, start, hist>>

\* lines 49-95 with the open of line 51 ahead of the loop of line 50
update_props_one_open ==
    /\ pc = "exec"
    /\ CurTask.op = "update_props"
    /\ IF pi > Len(CurTask.props)
       THEN Advance /\ UNCHANGED <<tree, nid, opens>>
       ELSE LET r == update_prop(tree[CurFile], nid, CurTask.props[pi], run)
            IN  /\ tree' = [tree EXCEPT ![CurFile] = r.tree]
                /\ nid' = r.nid
                /\ opens' = [opens EXCEPT ![CurFile] = IF pi = 1 THEN @ + 1 ELSE @]
                /\ IF ~r.ok
                   THEN pc' = "failed" /\ UNCHANGED <<fi, ti, pi, out, log>>
                   ELSE IF pi < Len(CurTask.props)
                   THEN pi' = pi + 1 /\ UNCHANGED <<pc, fi, ti, out, log>>
                   ELSE Advance
    /\ UNCHANGED <<version, fileid, args, force, i, tasks, order, conf, run, start, hist>>

\* update_props, lines 49-95: one Property per step; an exception ends main
update_props ==
    /\ pc = "exec"
    /\ CurTask.op = "update_props"
    /\ IF pi > Len(CurTask.props)
       THEN Advance /\ UNCHANGED <<tree, nid, opens>>
       ELSE LET r == update_prop(tree[CurFile], nid, CurTask.props[pi], run)
            IN  /\ tree' = [tree EXCEPT ![CurFile] = r.tree]
                /\ nid' = r.nid
                /\ opens' = [opens EXCEPT ![CurFile] = @ + 1]
                /\ IF ~r.ok
                   THEN pc' = "failed" /\ UNCHANGED <<fi, ti, pi, out, log>>
                   ELSE IF pi < Len(CurTask.props)
                   THEN pi' = pi + 1 /\ UNCHANGED <<pc, fi, ti, out, log>>
                   ELSE Advance
    /\ UNCHANGED <<version, fileid, args, force, i, tasks, order, conf, run, start, hist>>

\* update_ver, lines 115-117
update_ver ==
    /\ pc = "exec"
    /\ CurTask.op = "update_ver"
    /\ version' = [version EXCEPT ![CurFile] = Ver(HDF_FF_VERSION)]
    /\ opens' = [opens EXCEPT ![CurFile] = @ + 1]
    /\ Advance
    /\ UNCHANGED <<fileid, tree, nid, args, force, i, tasks, order, conf, run, start, hist>>

\* the process is killed while it executes the tasks
Interrupt ==
    /\ pc = "exec"
    /\ pc' = "killed"
    /\ UNCHANGED <<disk, nid, args, force, i, tasks, order, conf, fi, ti, pi, run, out, opens, log, start, hist>>

\* the operator runs the tool again on the same files
ReRun ==
    /\ pc \in {"done", "failed", "killed"}
    /\ run < MaxRuns
    /\ hist' = Append(hist, [pc |-> pc, tasks |-> tasks, order |-> order, fi |-> fi,
                             ti |-> ti, pi |-> pi, log |-> log, start |-> start])
    /\ run' = run + 1
    /\ pc' = "collect"
    /\ i' = 1
    /\ tasks' = NoTasks
    /\ order' = <<>>
    /\ conf' = "None"
    /\ fi' = 1 /\ ti' = 1 /\ pi' = 1
    /\ out' = <<>>
    /\ opens' = NoOpens
    /\ log' = NoLog
    /\ start' = Snapshot
    /\ UNCHANGED <<disk, nid, args, force>>

Next ==
    \/ Collect
    \/ AfterCollect
    \/ Input
    \/ add_id
    \/ update_props
    \/ update_ver
    \/ Interrupt
    \/ ReRun

Spec == Init /\ [][Next]_vars

TypeOK ==
    /\ pc \in {"collect", "prompt", "exec", "done", "failed", "killed"}
    /\ run \in 1..MaxRuns

\* ------------------------------------------------- the record normalizer alone
\* One file holding one legacy Property, drawn from every combination of
\* column contents of up to MaxRows rows; the tool is run once with --force.
UncVals == {"0", "1", "2"}
StrVals == {"", "a"}
RowSet == {Row("x", u, r, fl, e, c) : u \in UncVals, r \in StrVals, fl \in StrVals,
                                       e \in StrVals, c \in StrVals}
RowSeqs == UNION {[1..n -> RowSet] : n \in 0..MaxRows}

InitNorm ==
    /\ args = <<"f1">>
    /\ force = TRUE
    /\ version = ("f1" :> Ver(<<1, 1, 0>>)) @@ ("f2" :> Ver(HDF_FF_VERSION))
    /\ fileid = ("f1" :> NoneVal) @@ ("f2" :> Uuid(0))
    /\ \E rows \in RowSeqs \cup {RowsA} :
          tree = ("f1" :> ((<<S>> :> Group) @@ (<<S, P>> :> Legacy(AllCols, rows))))
                 @@ ("f2" :> OnlySection)
    /\ InitRun

NextNorm ==
    \/ Collect
    \/ AfterCollect
    \/ add_id
    \/ update_props
    \/ update_ver

SpecNorm == InitNorm /\ [][NextNorm]_vars

\* ------------------------------------------------------ vocabulary of the claims
Target == HDF_FF_VERSION

\* a is lexicographically smaller than b
LexLess(a, b) ==
    \E k \in 1..Len(b) :
        /\ \A j \in 1..(k - 1) : j <= Len(a) /\ a[j] = b[j]
        /\ (k > Len(a) \/ a[k] < b[k])

WellFormed(snap) == snap.version.k = "tuple"
ValidId(x) == x.k = "uuid"
IsUpToDate(snap) == WellFormed(snap) /\ ~LexLess(snap.version.v, Target)
NeedsStructuralUpgrade(snap) ==
    WellFormed(snap) /\ LexLess(snap.version.v, Target) /\ ~ValidId(snap.fileid)
NeedsVersionBumpOnly(snap) ==
    WellFormed(snap) /\ LexLess(snap.version.v, Target) /\ ValidId(snap.fileid)

Now(f) == [version |-> version[f], fileid |-> fileid[f], tree |-> tree[f]]

\* the files whose planning has returned in this run
Planned == {args[k] : k \in 1..(i - 1)}
PlanOps(f) == [k \in 1..Len(tasks[f]) |-> tasks[f][k].op]
FullPlan == <<"add_id", "update_props", "update_ver">>
IsPrefix(a, b) == Len(a) <= Len(b) /\ SubSeq(b, 1, Len(a)) = a
Confirmed == conf \in {"y", "yes"}

\* C1: a file that needs the structural upgrade gets the plan
\* [AssignIdentity, NormalizeRecords, BumpVersion], and the tasks that have
\* run so far are an initial part of that plan, in its order.
C1_TaskOrder ==
    \A f \in Planned :
        NeedsStructuralUpgrade(start[f]) =>
            /\ PlanOps(f) = FullPlan
            /\ IsPrefix(log[f], FullPlan)

C1_Witness ==
    \E f \in Planned : NeedsStructuralUpgrade(start[f]) /\ log[f] = FullPlan

Last1(h) == h[Len(h)]

\* the run before this one was killed between two tasks of the plan of f
KilledBetweenTasks(f) ==
    /\ hist # <<>>
    /\ LET h == Last1(hist)
       IN  /\ h.pc = "killed"
           /\ h.order[h.fi] = f
           /\ NeedsStructuralUpgrade(h.start[f])
           /\ \/ h.ti = 2 /\ h.pi = 1
              \/ h.ti = 3

\* C2: when a structural upgrade was interrupted between two tasks and the
\* tool is run again to completion, the file is up to date and no legacy
\* compound Record is left under metadata.
C2_ResumeAfterInterrupt ==
    \A f \in Files :
        (KilledBetweenTasks(f) /\ pc = "done" /\ Confirmed) =>
            /\ IsUpToDate(Now(f))
            /\ Compounds(tree[f]) = {}

\* C3: no step lowers the version of a file, and when every task of a plan
\* that holds the version update has run, the version is the target version
\* and is not below the version the file had when the run started.
C3_VersionMonotone ==
    [][\A f \in Files :
          /\ WellFormed(Now(f)) =>
                /\ version'[f].k = "tuple"
                /\ ~LexLess(version'[f].v, version[f].v)
          /\ ~WellFormed(Now(f)) => version'[f] = version[f]
          /\ (log'[f] # <<>> /\ Len(log'[f]) = Len(tasks'[f])
                 /\ \E k \in 1..Len(tasks'[f]) : tasks'[f][k].op = "update_ver") =>
                /\ version'[f] = Ver(Target)
                /\ ~LexLess(version'[f].v, start'[f].version.v)]_vars

C3_Witness ==
    \E f \in Files :
        /\ log[f] # <<>> /\ Len(log[f]) = Len(tasks[f])
        /\ version[f] = Ver(Target)
        /\ start[f].version = Ver(<<1, 2>>)

\* C4: after the whole plan of a file that needed the structural upgrade has
\* run, the file classifies as up to date and planning it again gives no
\* task, both at once and in the next run of the tool.
C4_RoundTrip ==
    /\ \A f \in Planned :
          (NeedsStructuralUpgrade(start[f]) /\ log[f] = FullPlan) =>
              /\ IsUpToDate(Now(f))
              /\ ~collect_tasks(f).raised
              /\ collect_tasks(f).tasks = <<>>
    /\ \A f \in Planned :
          (hist # <<>> /\ NeedsStructuralUpgrade(Last1(hist).start[f])
               /\ Last1(hist).log[f] = FullPlan) =>
              /\ IsUpToDate(start[f])
              /\ tasks[f] = <<>>

C4_Witness ==
    \E f \in Planned :
        /\ hist # <<>>
        /\ NeedsStructuralUpgrade(Last1(hist).start[f])
        /\ Last1(hist).log[f] = FullPlan
        /\ Compounds(Last1(hist).start[f].tree) # {}

UpToDateLine(f) == [f |-> f, what |-> "uptodate", ops |-> <<>>]

\* C5: a planned file is reported up to date exactly when its version is
\* not lexicographically below the target; such a file has no task, is never
\* opened for writing and keeps its attributes and Records.
C5_UpToDateNoOp ==
    \A f \in Planned :
        /\ (UpToDateLine(f) \in Range(out)) <=> ~LexLess(start[f].version.v, Target)
        /\ IsUpToDate(start[f]) =>
              /\ tasks[f] = <<>>
              /\ opens[f] = 0
              /\ Now(f) = start[f]

C5_Witness ==
    /\ pc = "done"
    /\ \E f \in Planned, g \in Planned :
          /\ IsUpToDate(start[f]) /\ start[f].version # Ver(Target)
          /\ Compounds(tree[f]) # {}
          /\ log[g] # <<>>

\* C6: a valid identity stays valid in every step, and a step that plans a
\* file whose identity is valid schedules neither AssignIdentity nor
\* NormalizeRecords for it.
C6_IdentityStable ==
    [][\A f \in Files :
          ValidId(fileid[f]) =>
              /\ ValidId(fileid'[f])
              /\ tasks'[f] # tasks[f] =>
                    \A k \in 1..Len(tasks'[f]) :
                        tasks'[f][k].op \notin {"add_id", "update_props"}]_vars

C6_Witness ==
    \E f \in Planned :
        /\ hist # <<>>
        /\ ~ValidId(Last1(hist).start[f].fileid)
        /\ ValidId(start[f].fileid)
        /\ LexLess(start[f].version.v, Target)
        /\ PlanOps(f) = <<"update_ver">>

\* C7: a file below the target with a valid identity gets the plan
\* [BumpVersion]; running it sets the version to the target and leaves the
\* identity and every node under metadata as they were.
C7_BumpOnly ==
    \A f \in Planned :
        NeedsVersionBumpOnly(start[f]) =>
            /\ PlanOps(f) = <<"update_ver">>
            /\ fileid[f] = start[f].fileid
            /\ tree[f] = start[f].tree
            /\ version[f] = IF log[f] = <<"update_ver">> THEN Ver(Target)
                            ELSE start[f].version

C7_Witness ==
    \E f \in Planned :
        /\ NeedsVersionBumpOnly(start[f])
        /\ log[f] = <<"update_ver">>
        /\ start[f].fileid = Uuid(0)
        /\ Compounds(tree[f]) # {}

\* the Properties whose iteration of update_props has completed in this run
Processed(f) ==
    IF "update_props" \in Range(log[f]) THEN Range(tasks[f][2].props)
    ELSE IF pc \in {"exec", "failed", "killed"} /\ order # <<>> /\ CurFile = f
            /\ CurTask.op = "update_props"
    THEN {CurTask.props[k] : k \in 1..(pi - 1)}
    ELSE {}

Created(f, path) == path \in DOMAIN tree[f] /\ path \notin DOMAIN start[f].tree

\* C8: for a rewritten Property, an uncertainty column with two different
\* values gives a new Record <path>.uncertainty holding the column and no
\* attribute; otherwise a non-zero row gives the attribute with that value
\* and no new Record; otherwise neither.
C8_UncertaintySplit ==
    \A f \in Files : \A p \in Processed(f) :
        LET col == Column(start[f].tree[p].rows, "uncertainty")
            sib == Sibling(p, "uncertainty")
            base == tree[f][p]
        IN  IF \E j, k \in 1..Len(col) : col[j] # col[k]
            THEN /\ Created(f, sib)
                 /\ tree[f][sib].data = col
                 /\ tree[f][sib].dtype = "float"
                 /\ ~base.attrs.has_unc
            ELSE IF \E k \in 1..Len(col) : col[k] # "0"
            THEN /\ ~Created(f, sib)
                 /\ base.attrs.has_unc
                 /\ \A k \in 1..Len(col) : col[k] = base.attrs.uncertainty
            ELSE /\ ~Created(f, sib)
                 /\ ~base.attrs.has_unc

C8_Witness ==
    \E f \in Files : \E p \in Processed(f) :
        LET col == Column(start[f].tree[p].rows, "uncertainty")
        IN  /\ Len(col) > 1
            /\ \A k \in 1..Len(col) : col[k] = "1"
            /\ tree[f][p].attrs.has_unc
            /\ ~Created(f, Sibling(p, "uncertainty"))

\* C9: for a rewritten Property and each of reference, filename, encoder,
\* checksum, a new Record <path>.<field> exists exactly when some row of the
\* column is non-empty, and it holds the whole column, row for row.
C9_StringSplit ==
    \A f \in Files : \A p \in Processed(f) : \A c \in Range(StrCols) :
        LET col == Column(start[f].tree[p].rows, c)
            sib == Sibling(p, c)
        IN  /\ Created(f, sib) <=> \E k \in 1..Len(col) : col[k] # ""
            /\ Created(f, sib) =>
                  /\ tree[f][sib].data = col
                  /\ Len(tree[f][sib].data) = Len(tree[f][p].data)

C9_Witness ==
    \E f \in Files : \E p \in Processed(f) : \E c \in Range(StrCols) :
        LET col == Column(start[f].tree[p].rows, c)
        IN  /\ \E k \in 1..Len(col) : col[k] = ""
            /\ \E k \in 1..Len(col) : col[k] # ""
            /\ Created(f, Sibling(p, c))
            /\ ~Created(f, Sibling(p, "reference"))

PlanLine(g) == \E k \in 1..Len(out) : out[k].f = g /\ out[k].what \in {"plan", "uptodate"}

\* C10: when a file on the command line is malformed, the run still ends
\* with that file unmodified, every well-formed file planned and, when the
\* run was confirmed, every well-formed file up to date.
C10_SkipMalformed ==
    \A f \in Range(args), g \in Range(args) :
        (~WellFormed(start[f]) /\ WellFormed(start[g]) /\ pc \in {"done", "failed"}) =>
            /\ Now(f) = start[f]
            /\ PlanLine(g)
            /\ (force \/ Confirmed) => IsUpToDate(Now(g))

\* something of this run has touched a file
Mutated == Snapshot # start \/ opens # NoOpens \/ log # NoLog
PlanPrinted(f) ==
    \E k \in 1..Len(out) : out[k] = [f |-> f, what |-> "plan", ops |-> PlanOps(f)]

\* C11: a file is touched only after every file on the command line has been
\* planned and every plan printed, and only with --force or the answer
\* y/yes; after n/no main ends with nothing touched; after any other answer
\* main is still at the prompt with nothing touched.
C11_ConfirmationGate ==
    /\ Mutated =>
          /\ i > Len(args)
          /\ \A f \in Range(order) : PlanPrinted(f)
          /\ force \/ Confirmed
    /\ conf \in {"n", "no"} => pc \in {"done"} /\ ~Mutated
    /\ conf \notin {"None", "y", "yes", "n", "no"} => pc = "prompt" /\ ~Mutated
    /\ pc = "prompt" => ~force /\ ~Mutated

C11_Witness ==
    /\ ~force
    /\ conf = "y"
    /\ Len(order) = 2
    /\ \A f \in Files : log[f] # <<>>

\* update_props of file f has stopped at a Property that lacks a column
AbortedOnMissingColumn(f) ==
    /\ pc = "failed"
    /\ i > Len(args)
    /\ CurFile = f
    /\ CurTask.op = "update_props"
    /\ ~(AllCols \subseteq start[f].tree[CurTask.props[pi]].fields)

IsCanonicalOf(node, legacy) ==
    /\ node.kind = "dataset"
    /\ ~node.compound
    /\ node.data = Column(legacy.rows, "value")

\* C12: when update_props stops at a Property that lacks a column, that
\* Property is still the legacy dataset, the candidates collected before it
\* are canonical, the candidates collected after it are as they were, and
\* the version update has not run: the version is the one the run started
\* with, below the target.
C12_AbortNoRollback ==
    \A f \in Files :
        AbortedOnMissingColumn(f) =>
            LET props == CurTask.props
                old == start[f].tree
            IN  /\ Range(props) \subseteq DOMAIN tree[f]
                /\ tree[f][props[pi]] = old[props[pi]]
                /\ \A k \in 1..(pi - 1) : IsCanonicalOf(tree[f][props[k]], old[props[k]])
                /\ \A k \in (pi + 1)..Len(props) : tree[f][props[k]] = old[props[k]]
                /\ "update_ver" \notin Range(log[f])
                /\ version[f] = start[f].version
                /\ LexLess(version[f].v, Target)

C12_Witness ==
    \E f \in Files :
        /\ AbortedOnMissingColumn(f)
        /\ pi = 2
        /\ Len(CurTask.props) = 3

\* update_props has returned for file f in this run
Normalized(f) == "update_props" \in Range(log[f])
Candidates(f) == Range(tasks[f][2].props)

\* C13: once update_props has returned, every candidate path holds a
\* non-compound dataset with the rows and the row type of the legacy value
\* column, its leaf name, an identity that no other node or file header
\* carries, and both timestamps of this run; no compound dataset is left.
C13_CanonicalAfterNormalize ==
    \A f \in Files :
        Normalized(f) =>
            /\ Compounds(tree[f]) = {}
            /\ \A p \in Candidates(f) :
                  /\ p \in DOMAIN tree[f]
                  /\ IsCanonicalOf(tree[f][p], start[f].tree[p])
                  /\ tree[f][p].dtype = start[f].tree[p].dtype
                  /\ Len(tree[f][p].data) = Len(start[f].tree[p].rows)
                  /\ tree[f][p].attrs.name = p[Len(p)]
                  /\ ValidId(tree[f][p].attrs.entity_id)
                  /\ tree[f][p].attrs.entity_id # fileid[f]
                  /\ \A q \in DOMAIN tree[f] \ {p} :
                        tree[f][q].attrs.entity_id # tree[f][p].attrs.entity_id
                  /\ \A q \in DOMAIN start[f].tree :
                        start[f].tree[q].attrs.entity_id # tree[f][p].attrs.entity_id
                  /\ tree[f][p].attrs.created_at = run
                  /\ tree[f][p].attrs.updated_at = run

C13_Witness ==
    \E f \in Files :
        /\ Normalized(f)
        /\ Cardinality(Candidates(f)) = 2
        /\ \E p \in Candidates(f) : Len(p) = 3

\* main is between two opens of the files, not stopped by an exception
BetweenOpens == pc \in {"exec", "killed", "done"}

\* C14 as claimed: a file has been opened for writing at most once for each
\* task that has returned, and between two opens its Records are either all
\* as the run found them or all normalized.
C14_OneTransactionPerTask ==
    \A f \in Files :
        BetweenOpens =>
            /\ opens[f] <= Len(log[f])
            /\ tree[f] = start[f].tree \/ Normalized(f)

\* update_props is working on file f: the number of opens it has made
InProgress(f) ==
    IF pc \in {"exec", "failed", "killed"} /\ i > Len(args) /\ order # <<>> /\ CurFile = f
          /\ CurTask.op = "update_props"
    THEN (pi - 1) + (IF pc = "failed" THEN 1 ELSE 0)
    ELSE 0

ExpectedOpens(f) ==
    (IF "add_id" \in Range(log[f]) THEN 1 ELSE 0)
      + (IF Normalized(f) THEN Len(tasks[f][2].props) ELSE InProgress(f))
      + (IF "update_ver" \in Range(log[f]) THEN 1 ELSE 0)

\* C14 as amended: add_id and update_ver open the file once each and
\* update_props opens it once for each candidate; between two opens the
\* compound datasets of a file are those the run found less the candidates
\* already rewritten.
C14_OneOpenPerRecord ==
    \A f \in Files :
        /\ opens[f] = ExpectedOpens(f)
        /\ BetweenOpens => Compounds(tree[f]) = Compounds(start[f].tree) \ Processed(f)

C14_Witness ==
    \E f \in Files :
        /\ pc = "killed"
        /\ CurFile = f
        /\ CurTask.op = "update_props"
        /\ pi = 2
        /\ opens[f] = 2
        /\ Compounds(tree[f]) # {}
        /\ Compounds(tree[f]) # Compounds(start[f].tree)

\* no task of this run has returned
NoTaskYet == \A f \in Files : log[f] = <<>>

\* C15: while main plans or prompts, when planning has failed, and until the
\* first task has returned, every file has the attributes and the tree it
\* had when the run started and has not been opened for writing.
C15_PlanningReadOnly ==
    (pc \in {"collect", "prompt"} \/ (pc = "failed" /\ i <= Len(args)) \/ NoTaskYet) =>
        /\ Snapshot = start
        /\ opens = NoOpens

C15_Witness ==
    /\ pc = "failed"
    /\ i = 2
    /\ PlanOps(args[1]) = FullPlan
    /\ Compounds(tree[args[1]]) # {}

AuxKinds == {"uncertainty", "reference", "filename", "encoder", "checksum"}
DottedName(c, kind) == Append(SubSeq(c, 1, Len(c) - 1), Append(c[Len(c)], kind))

\* C16: a step that changes the tree of a file leaves its version and its
\* identity alone, keeps every group and every non-compound dataset as it
\* was, replaces only compound datasets that are candidates of the running
\* task, and adds nodes only at <candidate>.<kind> for the five kinds.
C16_OnlyCandidatesTouched ==
    [][\A f \in Files :
          tree'[f] # tree[f] =>
              /\ version'[f] = version[f]
              /\ fileid'[f] = fileid[f]
              /\ CurTask.op = "update_props"
              /\ \A path \in DOMAIN tree[f] :
                    /\ path \in DOMAIN tree'[f]
                    /\ tree'[f][path] # tree[f][path] =>
                          /\ tree[f][path].kind = "dataset"
                          /\ tree[f][path].compound
                          /\ path \in Range(CurTask.props)
              /\ \A path \in DOMAIN tree'[f] \ DOMAIN tree[f] :
                    \E c \in Range(CurTask.props), kind \in AuxKinds :
                        path = DottedName(c, kind)]_vars

C16_Witness ==
    \E f \in Files :
        /\ Normalized(f)
        /\ \E p \in DOMAIN tree[f] : tree[f][p].kind = "group" /\ Len(p) = 2
        /\ \E p \in DOMAIN start[f].tree :
              /\ start[f].tree[p].kind = "dataset" /\ ~start[f].tree[p].compound
              /\ tree[f][p] = start[f].tree[p]
        /\ \E c \in Candidates(f) : DottedName(c, "checksum") \in DOMAIN tree[f]

\* the file as the first run of the tool found it
Orig(f) == IF hist = <<>> THEN start[f] ELSE hist[1].start[f]

\* a legacy file without identity, or a file without compound datasets
Consistent(snap) == ~ValidId(snap.fileid) \/ Compounds(snap.tree) = {}

\* C17: a file whose version the tool has set to the target holds no
\* compound dataset under metadata, whatever runs, aborted or not, came
\* before.
C17_BumpedMeansNormalized ==
    \A f \in Files :
        (Consistent(Orig(f)) /\ Orig(f).version # Ver(Target) /\ version[f] = Ver(Target)) =>
            Compounds(tree[f]) = {}

\* C18: when every compound dataset of a file has all the columns, the
\* tasks of that file do not end in an exception.
C18_NoNameCollision ==
    \A f \in Files :
        (\A p \in Compounds(start[f].tree) : AllCols \subseteq start[f].tree[p].fields) =>
            ~(pc = "failed" /\ i > Len(args) /\ CurFile = f)

====
